---- MODULE Spec2Model ----
(***************************************************************************)
(* A model of src/web_scapper.py: the FinvizScraper class.                 *)
(*                                                                         *)
(*   Spec        one FinvizScraper instance and the sequence of            *)
(*               get_company_data / get_sector_data calls made on it:      *)
(*               rate limiting, user-agent and proxy rotation, the GET,    *)
(*               the parse of the fetched page.                            *)
(*   SpecConvert _convert_value applied to a bounded set of strings.       *)
(*   SpecRating  get_stock_rating_data applied to a bounded set of         *)
(*               snapshots.                                                *)
(*                                                                         *)
(*   SpecFetch   as Spec, over every page and every way the GET can end,   *)
(*               for a few calls.                                          *)
(*                                                                         *)
(* Time is counted in half seconds (the jitter's bounds 0.5 and 1.5 are    *)
(* whole numbers of them).  The code reads the clock only in the           *)
(* difference time.time() - self.last_request_time and compares that with  *)
(* min_request_interval, so the model keeps both relative to the end of    *)
(* the latest requests.get (or to the construction, before the first):     *)
(* `now` is the time since then, and last_request_time is zero or          *)
(* negative, kept no lower than -min_request_interval, below which every   *)
(* value makes the same difference to the code.                            *)
(* A Python str that the code takes apart is a sequence of one-character   *)
(* strings; a float is a fixed-point integer, a whole number of            *)
(* 1/NumScale.                                                             *)
(***************************************************************************)
EXTENDS Integers, Sequences, FiniteSets, TLC

VARIABLES
    mode,               \* which specification runs: "scraper", "fetch", "convert", "rating"
    \* ---- the FinvizScraper instance (src/web_scapper.py:13-31)
    user_agent_cycle,   \* self.user_agent_cycle: cycle(self.user_agents)
    proxies,            \* self.proxies: None, or cycle(proxies)
    last_request_time,  \* self.last_request_time
    \* ---- the environment
    now,                \* time.time()
    \* ---- what the latest calls did (observations, never read by the code)
    proxy_arg,          \* the proxies argument the instance was built with
    n_requests,         \* number of _make_request calls so far
    n_calls,            \* number of get_company_data / get_sector_data calls so far
    n_gets,             \* number of requests.get calls so far
    sent,               \* headers and proxies of the latest requests.get
    gap,                \* from the end of the previous requests.get (returned or
                        \* raised) to the start of the latest one (-1: no previous)
    jitter,             \* random.uniform(0.5, 1.5) of the latest request
    outcome,            \* how the latest requests.get ended
    fetched,            \* which page the latest requests.get was answered with
    result,             \* what the latest public call returned or raised
    \* ---- the pure functions' inputs and outputs
    conv_in,            \* _convert_value: the argument
    conv_out,           \* _convert_value: the returned value
    company_data,       \* get_stock_rating_data: the argument
    scores,             \* the local lists `scores` of the three _calculate_ functions
    ratings             \* get_stock_rating_data: returned dict or raised error

scraper_vars == <<user_agent_cycle, proxies, last_request_time, now, proxy_arg,
                  n_requests, n_calls, n_gets, sent, gap, jitter, outcome, fetched,
                  result>>
convert_vars == <<conv_in, conv_out>>
rating_vars == <<company_data, scores, ratings>>
vars == <<mode, scraper_vars, convert_vars, rating_vars>>

----------------------------------------------------------------------------
(* Bounds of the model *)

MaxRequests == 6     \* calls made on one instance, Spec
MaxFetches == 3      \* calls made on one instance, SpecFetch
MaxIdle == 4         \* longest pause of the caller between two calls, half seconds
MaxGetTime == 1      \* longest requests.get, half seconds
MaxLen == 4          \* longest string handed to _convert_value
FracDigits == 2      \* decimal digits a float keeps

(* Program constants *)

min_request_interval == 2   \* seconds (src/web_scapper.py:31)
JitterLo == 1               \* random.uniform(0.5, ...): 0.5 s in half seconds
JitterHi == 3               \* random.uniform(..., 1.5): 1.5 s in half seconds

HalfSeconds(s) == s + s

----------------------------------------------------------------------------
(* The instance: rotation pools *)

user_agents == <<"UA-Chrome-Win", "UA-Chrome-Mac", "UA-Firefox-Win",
                 "UA-Safari-Mac", "UA-Chrome-Linux">>

\* None
None == [set |-> FALSE, pool |-> <<>>, pos |-> 1]

\* itertools.cycle(pool): an iterator that repeats pool for ever
cycle(pool) == [set |-> TRUE, pool |-> pool, pos |-> 1]

\* next(c) on a cycle: the item at the position, and the cycle moved on by one,
\* back to the first item after the last
CycleItem(c) == c.pool[c.pos]

\* (a cycle that stays on its last item)
CycleAdvanceStuck(c) == [c EXCEPT !.pos = IF c.pos < Len(c.pool) THEN c.pos + 1 ELSE c.pos]

CycleAdvance(c) == [c EXCEPT !.pos = (c.pos % Len(c.pool)) + 1]

\* The proxies arguments tried: None, the empty list, lists of two and three
ProxyArgs == {None} \cup {cycle(p) : p \in {<<>>, <<"px1", "px2">>, <<"px1", "px2", "px3">>}}

\* __init__: self.proxies = None; if proxies: self.proxies = cycle(proxies)
InitProxies(arg) == IF arg.set /\ Len(arg.pool) > 0 THEN cycle(arg.pool) ELSE None

----------------------------------------------------------------------------
(* Values: a float, or a str (the CompanySnapshot's number-or-string) *)

NumScale == 10 ^ FracDigits

Number(n) == [tag |-> "Number", num |-> n, text |-> <<>>]

Text(cs) == [tag |-> "Text", num |-> 0, text |-> cs]

----------------------------------------------------------------------------
(* _convert_value (src/web_scapper.py:224-234) *)

Digits == {"0", "1", "2", "3", "4", "5", "6", "7", "8", "9"}

DigitValue(c) == CHOOSE n \in 0..9 : <<"0", "1", "2", "3", "4", "5", "6", "7", "8", "9">>[n + 1] = c

\* value.replace(',', '').replace('%', '')
StripSeparators(cs) == SelectSeq(cs, LAMBDA c : c # "," /\ c # "%")

\* the string without its sign, if it starts with one
Unsigned(cs) == IF Len(cs) > 0 /\ cs[1] \in {"-", "+"} THEN Tail(cs) ELSE cs

DotCount(cs) == Cardinality({i \in 1..Len(cs) : cs[i] = "."})

DigitCount(cs) == Cardinality({i \in 1..Len(cs) : cs[i] \in Digits})

\* position of the decimal point (Len + 1 when there is none)
DotPos(cs) == IF DotCount(cs) = 0 THEN Len(cs) + 1
              ELSE CHOOSE i \in 1..Len(cs) : cs[i] = "."

\* digits after the decimal point
FracLen(cs) == IF DotCount(cs) = 0 THEN 0 ELSE Len(cs) - DotPos(cs)

\* float(value) succeeds: an optional sign, then digits with at most one
\* decimal point and at least one digit (the strings of the model hold no
\* exponent, underscore, blank, "inf" or "nan")
IsFloat(cs) ==
    LET u == Unsigned(cs) IN
    /\ DigitCount(u) >= 1
    /\ DotCount(u) <= 1
    /\ \A i \in 1..Len(u) : u[i] \in Digits \cup {"."}

RECURSIVE DigitsToNat(_)
DigitsToNat(ds) == IF ds = <<>> THEN 0
                   ELSE 10 * DigitsToNat(SubSeq(ds, 1, Len(ds) - 1)) + DigitValue(ds[Len(ds)])

\* float(value), in 1/NumScale (FracLen(value) <= FracDigits)
ParseFloat(cs) ==
    LET u == Unsigned(cs)
        whole == DigitsToNat(SubSeq(u, 1, DotPos(u) - 1))
        frac == DigitsToNat(SubSeq(u, DotPos(u) + 1, Len(u)))
        mag == whole * NumScale + frac * 10 ^ (FracDigits - FracLen(u))
    IN IF Len(cs) > 0 /\ cs[1] = "-" THEN 0 - mag ELSE mag

\* what the except branch returns: the local `value`, which line 228 rebound
ConvertFallback(original, stripped) == stripped

_convert_value(value) ==
    LET stripped == StripSeparators(value) IN
    IF IsFloat(stripped) THEN Number(ParseFloat(stripped))
    ELSE Text(ConvertFallback(value, stripped))

----------------------------------------------------------------------------
(* dict: a function from the keys present to their values *)

EmptyDict == [k \in {} |-> Number(0)]

\* d[key] = value
DictSet(d, key, value) ==
    [k \in DOMAIN d \cup {key} |-> IF k = key THEN value ELSE d[k]]

\* d.get(key, default)
DictGet(d, key, default) == IF key \in DOMAIN d THEN d[key] ELSE default

----------------------------------------------------------------------------
(* The scorer (src/web_scapper.py:173-222, 236-287).  A score is a whole   *)
(* number of 1/ScoreScale points; the factor 18 keeps the mean of one, two *)
(* or three scores, and the mean of three such means, whole.               *)

ScoreScale == NumScale * 100 * 18

\* n points
Pts(n) == n * ScoreScale

\* a float times a factor given in hundredths (3.33 is 333), as a score
Times(num, hundredths) == num * hundredths * 18

RECURSIVE Sum(_)
Sum(xs) == IF xs = <<>> THEN 0 ELSE xs[1] + Sum(Tail(xs))

\* np.mean(scores)
Mean(xs) == Sum(xs) \div Len(xs)

Abs(x) == IF x < 0 THEN 0 - x ELSE x

Min2(a, b) == IF b < a THEN b ELSE a

Max2(a, b) == IF b > a THEN b ELSE a

\* (a clamp without its ceiling)
ClampFloorOnly(x) == Max2(0, x)

\* max(0, min(100, x))
Clamp(x) == Max2(0, Min2(Pts(100), x))

\* (a str taken for the 0 its absence would give)
ComparableAlways(v) == TRUE

\* (P/E included from 0 on)
PeIncludedFromZero(num) == num >= 0

\* v > 0, v >= 0, min(100, v) with v a float are evaluated; with v a str they
\* raise TypeError ('>' not supported between instances of 'str' and 'int')
Comparable(v) == v.tag = "Number"

\* line 241: if pe > 0
PeIncluded(num) == num > 0

\* the result of a _calculate_ function, or of a part of one: the local list
\* `scores` so far, and whether a TypeError was raised
Scored(xs) == [raised |-> FALSE, scores |-> xs]

Raised(xs) == [raised |-> TRUE, scores |-> xs]

\* lines 241-243: if pe > 0: scores.append(max(0, min(100, (30 - pe) * 3.33)))
PeStep(acc, pe) ==
    IF acc.raised THEN acc
    ELSE IF ~Comparable(pe) THEN Raised(acc.scores)
    ELSE IF PeIncluded(pe.num)
         THEN Scored(Append(acc.scores, Clamp(Times(30 * NumScale - pe.num, 333))))
         ELSE acc

\* lines 246-248: if peg > 0: scores.append(max(0, min(100, (2 - abs(1 - peg)) * 50)))
PegStep(acc, peg) ==
    IF acc.raised THEN acc
    ELSE IF ~Comparable(peg) THEN Raised(acc.scores)
    ELSE IF peg.num > 0
         THEN Scored(Append(acc.scores,
                  Clamp(Times(2 * NumScale - Abs(NumScale - peg.num), 50 * 100))))
         ELSE acc

\* lines 251-253: if pb > 0: scores.append(max(0, min(100, (5 - pb) * 20)))
PbStep(acc, pb) ==
    IF acc.raised THEN acc
    ELSE IF ~Comparable(pb) THEN Raised(acc.scores)
    ELSE IF pb.num > 0
         THEN Scored(Append(acc.scores, Clamp(Times(5 * NumScale - pb.num, 20 * 100))))
         ELSE acc

\* return np.mean(scores) if scores else 0
MeanOrZero(xs) == IF xs # <<>> THEN Mean(xs) ELSE 0

_calculate_valuation_score(pe, peg, pb) ==
    PbStep(PegStep(PeStep(Scored(<<>>), pe), peg), pb)

\* lines 262-264, 267-269: if growth is not None: scores.append(max(0,
\* min(100, growth * 5))).  No value of the model is None.  A str times 5 is
\* the str repeated, and min(100, str) raises TypeError.
GrowthStep(acc, growth) ==
    IF acc.raised THEN acc
    ELSE IF ~Comparable(growth) THEN Raised(acc.scores)
    ELSE Scored(Append(acc.scores, Clamp(Times(growth.num, 5 * 100))))

_calculate_growth_score(earnings_growth, sales_growth) ==
    GrowthStep(GrowthStep(Scored(<<>>), earnings_growth), sales_growth)

\* lines 278-280: if current_ratio > 0: scores.append(max(0, min(100, current_ratio * 50)))
CurrentRatioStep(acc, current_ratio) ==
    IF acc.raised THEN acc
    ELSE IF ~Comparable(current_ratio) THEN Raised(acc.scores)
    ELSE IF current_ratio.num > 0
         THEN Scored(Append(acc.scores, Clamp(Times(current_ratio.num, 50 * 100))))
         ELSE acc

\* (debt/equity included only above 0, as the current ratio is)
DebtEquityIncludedAboveZero(num) == num > 0

\* line 283: if debt_equity >= 0
DebtEquityIncluded(num) == num >= 0

\* lines 283-285: if debt_equity >= 0: scores.append(max(0, min(100, (2 - debt_equity) * 50)))
DebtEquityStep(acc, debt_equity) ==
    IF acc.raised THEN acc
    ELSE IF ~Comparable(debt_equity) THEN Raised(acc.scores)
    ELSE IF DebtEquityIncluded(debt_equity.num)
         THEN Scored(Append(acc.scores,
                  Clamp(Times(2 * NumScale - debt_equity.num, 50 * 100))))
         ELSE acc

_calculate_financial_health_score(current_ratio, debt_equity) ==
    DebtEquityStep(CurrentRatioStep(Scored(<<>>), current_ratio), debt_equity)

\* The seven scored fields
ScoredFields == {"P/E", "PEG", "P/B", "EPS growth next 5 years",
                 "Sales growth past 5 years", "Current Ratio", "Debt/Equity"}

NoScores == [valuation |-> <<>>, growth |-> <<>>, health |-> <<>>]

NoRatings == [state |-> "none", valuation_score |-> 0, growth_score |-> 0,
              financial_health_score |-> 0, overall_score |-> 0]

\* get_stock_rating_data: the three scores in turn, the first TypeError ends
\* the call (logged and raised again, lines 220-222); then their np.mean
get_stock_rating_data(data) ==
    LET v == _calculate_valuation_score(DictGet(data, "P/E", Number(0)),
                                        DictGet(data, "PEG", Number(0)),
                                        DictGet(data, "P/B", Number(0)))
        g == _calculate_growth_score(DictGet(data, "EPS growth next 5 years", Number(0)),
                                     DictGet(data, "Sales growth past 5 years", Number(0)))
        h == _calculate_financial_health_score(DictGet(data, "Current Ratio", Number(0)),
                                               DictGet(data, "Debt/Equity", Number(0)))
    IN  IF v.raised
        THEN [scores |-> [NoScores EXCEPT !.valuation = v.scores],
              ratings |-> [NoRatings EXCEPT !.state = "raised"]]
        ELSE IF g.raised
        THEN [scores |-> [NoScores EXCEPT !.valuation = v.scores, !.growth = g.scores],
              ratings |-> [NoRatings EXCEPT !.state = "raised"]]
        ELSE IF h.raised
        THEN [scores |-> [valuation |-> v.scores, growth |-> g.scores, health |-> h.scores],
              ratings |-> [NoRatings EXCEPT !.state = "raised"]]
        ELSE [scores |-> [valuation |-> v.scores, growth |-> g.scores, health |-> h.scores],
              ratings |-> [state |-> "returned",
                           valuation_score |-> MeanOrZero(v.scores),
                           growth_score |-> MeanOrZero(g.scores),
                           financial_health_score |-> MeanOrZero(h.scores),
                           overall_score |-> Mean(<<MeanOrZero(v.scores),
                                                    MeanOrZero(g.scores),
                                                    MeanOrZero(h.scores)>>)]]

----------------------------------------------------------------------------
(* Pages.  A cell's text is given twice: whole (text), as the dict key it  *)
(* may become, and as its characters (chars), as the value that may be     *)
(* converted.  Cell texts are given stripped.                              *)

Cell(text, chars) == [text |-> text, chars |-> chars]

Row(cls, cells) == [cls |-> cls, cells |-> cells]

Table(classes, id, rows) == [classes |-> classes, id |-> id, rows |-> rows]

c_pe == Cell("P/E", <<"P", "/", "E">>)
c_peg == Cell("PEG", <<"P", "E", "G">>)
c_pb == Cell("P/B", <<"P", "/", "B">>)
c_de == Cell("Debt/Equity", <<"D", "/", "E">>)
c_inc == Cell("Income", <<"I", "n", "c">>)
c_15 == Cell("15", <<"1", "5">>)
c_1 == Cell("1", <<"1">>)
c_2 == Cell("2", <<"2">>)
c_dash == Cell("-", <<"-">>)
c_big == Cell("1,234.5%", <<"1", ",", "2", "3", "4", ".", "5", "%">>)
c_name == Cell("Name", <<"N", "a", "m", "e">>)
c_chg == Cell("Change", <<"C", "h", "g">>)
c_tech == Cell("Tech", <<"T", "e", "c", "h">>)
c_util == Cell("Util", <<"U", "t", "i", "l">>)
c_10p == Cell("10%", <<"1", "0", "%">>)
c_m5p == Cell("-5%", <<"-", "5", "%">>)
c_badp == Cell("n%a", <<"n", "%", "a">>)

\* Company pages: no table; one snapshot table (with an odd cell at a row's
\* end); two snapshot tables that repeat a label, beside another table
CompanyPages == <<
    <<>>,
    <<Table({"snapshot-table2"}, "", <<Row("", <<c_pe, c_15, c_peg, c_1>>),
                                      Row("", <<c_pb, c_2, c_inc>>)>>)>>,
    <<Table({"other"}, "", <<Row("", <<c_pe, c_2>>)>>),
      Table({"snapshot-table2"}, "", <<Row("", <<c_pe, c_15, c_de, c_dash>>)>>),
      Table({"snapshot-table2"}, "", <<Row("", <<c_pe, c_dash>>),
                                      Row("", <<c_inc, c_big>>)>>)>> >>

hdr == Row("table-header", <<c_name, c_chg>>)
r_tech == Row("", <<c_tech, c_10p>>)
r_util == Row("", <<c_util, c_m5p>>)
r_short == Row("", <<c_util>>)
r_bad == Row("", <<c_util, c_badp>>)

\* Sector pages: no table; one table for the first selector; a table no
\* selector matches; one table for each other selector; several selectors matching different tables; rows that pandas
\* or the percent conversion refuse
SectorPages == <<
    <<>>,
    <<Table({"table-light"}, "", <<hdr, r_tech, r_util>>)>>,
    <<Table({"snapshot-table2"}, "other", <<hdr, r_tech>>)>>,
    <<Table({"groups-table-overview"}, "", <<hdr, r_util>>)>>,
    <<Table({"other"}, "groups-table-overview", <<hdr, r_tech>>)>>,
    <<Table({}, "groups-table-overview", <<hdr, r_util>>),
      Table({"groups-table-overview", "wide"}, "", <<hdr, r_tech>>),
      Table({"table-light"}, "", <<hdr, r_tech, r_util, r_short>>)>>,
    <<Table({"table-light"}, "", <<hdr>>)>>,
    <<Table({"table-light"}, "", <<hdr, r_tech, r_bad>>)>>,
    <<Table({"table-light"}, "", <<hdr, r_short, r_tech>>)>>,
    <<Table({"table-light"}, "", <<Row("", <<c_name>>), r_tech>>)>>,
    <<Table({"table-light"}, "", <<>>)>> >>

----------------------------------------------------------------------------
(* get_company_data's parse (src/web_scapper.py:98-116) *)

\* soup.find_all('table', class_='snapshot-table2')
SnapshotTables(page) == SelectSeq(page, LAMBDA t : "snapshot-table2" \in t.classes)

\* lines 107-111: for i in range(0, len(columns), 2): if i + 1 < len(columns):
\* data[key] = self._convert_value(value)   (i counts from 1 here)
RECURSIVE ColumnsData(_, _, _)
ColumnsData(data, columns, i) ==
    IF i > Len(columns) THEN data
    ELSE IF i + 1 <= Len(columns)
         THEN ColumnsData(DictSet(data, columns[i].text, _convert_value(columns[i + 1].chars)),
                          columns, i + 2)
         ELSE ColumnsData(data, columns, i + 2)

\* lines 105-106: for row in rows
RECURSIVE RowsData(_, _)
RowsData(data, rows) ==
    IF rows = <<>> THEN data
    ELSE RowsData(ColumnsData(data, rows[1].cells, 1), Tail(rows))

\* lines 103-104: for table in tables
RECURSIVE TablesData(_, _)
TablesData(data, tables) ==
    IF tables = <<>> THEN data
    ELSE TablesData(RowsData(data, tables[1].rows), Tail(tables))

ParseCompanyPage(page) == TablesData(EmptyDict, SnapshotTables(page))

----------------------------------------------------------------------------
(* get_sector_data's parse (src/web_scapper.py:136-167) *)

\* soup.find('table', ...): the first of the tables the selector accepts, as
\* a sequence of none or one
FirstTable(hits) == IF hits = <<>> THEN <<>> ELSE <<hits[1]>>

ByClass(page, class) == FirstTable(SelectSeq(page, LAMBDA t : class \in t.classes))

ById(page, id) == FirstTable(SelectSeq(page, LAMBDA t : t.id = id))

\* a or b, where a found Tag is true
OrElse(a, b) == IF a # <<>> THEN a ELSE b

\* (the id selector taking any table that has an id)
FindSectorTableAnyId(page) ==
    OrElse(ByClass(page, "table-light"),
           OrElse(ByClass(page, "groups-table-overview"),
                  FirstTable(SelectSeq(page, LAMBDA t : t.id # ""))))

\* lines 138-140: the three selectors, the first that finds a table wins
FindSectorTable(page) ==
    OrElse(ByClass(page, "table-light"),
           OrElse(ByClass(page, "groups-table-overview"),
                  ById(page, "groups-table-overview")))

\* lines 149-151: the cells of the first row of class table-header, if any
SectorHeaders(table) ==
    LET hs == SelectSeq(table.rows, LAMBDA r : r.cls = "table-header") IN
    IF hs = <<>> THEN <<>> ELSE [j \in 1..Len(hs[1].cells) |-> hs[1].cells[j].text]

\* lines 154-158: table.find_all('tr')[1:], each row its cells' texts
SectorRows(table) ==
    IF table.rows = <<>> THEN <<>>
    ELSE [i \in 1..(Len(table.rows) - 1) |->
             [j \in 1..Len(table.rows[i + 1].cells) |-> table.rows[i + 1].cells[j].chars]]

Width(data) ==
    IF data = <<>> THEN 0
    ELSE CHOOSE w \in {Len(data[i]) : i \in 1..Len(data)} :
             \A i \in 1..Len(data) : Len(data[i]) <= w

\* pd.DataFrame(data, columns=headers) raises ValueError when the rows'
\* width is not the number of columns
FrameRefused(data, headers) == data # <<>> /\ Width(data) # Len(headers)

\* df[col].iloc[i]: the cell, or None where pandas filled a short row
NoneCell == [tag |-> "None", num |-> 0, text |-> <<>>]

NaN == [tag |-> "NaN", num |-> 0, text |-> <<>>]

\* a float that is num / NumScale / 100
Percent(num) == [tag |-> "Percent", num |-> num, text |-> <<>>]

FrameCell(data, i, j) == IF j <= Len(data[i]) THEN Text(data[i][j]) ELSE NoneCell

HasPercent(cs) == \E k \in 1..Len(cs) : cs[k] = "%"

\* s.rstrip('%')
RECURSIVE RStripPercent(_)
RStripPercent(cs) ==
    IF cs # <<>> /\ cs[Len(cs)] = "%" THEN RStripPercent(SubSeq(cs, 1, Len(cs) - 1))
    ELSE cs

\* line 164 for column j: "index" when there is no first row (IndexError),
\* "type" when its cell is None (TypeError), else whether it holds a '%'
ColumnTest(data, j) ==
    IF data = <<>> THEN "index"
    ELSE IF FrameCell(data, 1, j).tag = "None" THEN "type"
    ELSE IF HasPercent(data[1][j]) THEN "percent"
    ELSE "text"

\* line 165 on one cell: .str.rstrip('%').astype('float') / 100
PercentCell(cell) ==
    IF cell.tag = "None" THEN NaN ELSE Percent(ParseFloat(RStripPercent(cell.text)))

\* line 165 raises ValueError on a cell that is no float
PercentRefused(data, j) ==
    \E i \in 1..Len(data) :
        /\ FrameCell(data, i, j).tag = "Text"
        /\ ~IsFloat(RStripPercent(data[i][j]))

\* the first column, from j on, at which lines 163-165 raise, with the error
\* ("" when none does)
RECURSIVE ColumnsError(_, _, _)
ColumnsError(data, ncols, j) ==
    IF j > ncols THEN ""
    ELSE LET t == ColumnTest(data, j) IN
         IF t = "index" THEN "IndexError"
         ELSE IF t = "type" THEN "TypeError"
         ELSE IF t = "percent" /\ PercentRefused(data, j) THEN "ValueError"
         ELSE ColumnsError(data, ncols, j + 1)

\* the frame lines 160-167 return when nothing raises
SectorFrame(data, headers) ==
    [columns |-> headers,
     rows |-> [i \in 1..Len(data) |->
                  [j \in 1..Len(headers) |->
                      IF ColumnTest(data, j) = "percent"
                      THEN PercentCell(FrameCell(data, i, j))
                      ELSE FrameCell(data, i, j)]]]

NoFrame == [columns |-> <<>>, rows |-> <<>>]

\* what a public call returns or raises
Returned(kind, data, frame) ==
    [state |-> "returned", kind |-> kind, error |-> "", data |-> data, frame |-> frame]

Raises(error) ==
    [state |-> "raised", kind |-> "", error |-> error, data |-> EmptyDict, frame |-> NoFrame]

NoResult == [state |-> "none", kind |-> "", error |-> "", data |-> EmptyDict, frame |-> NoFrame]

\* lines 142-143: if not table: raise ValueError("Sector table not found")
TableMissing(found) == found = <<>>

ParseSectorPage(page) ==
    LET found == FindSectorTable(page) IN
    IF TableMissing(found) THEN Raises("ValueError: Sector table not found")
    ELSE LET headers == SectorHeaders(found[1])
             data == SectorRows(found[1])
         IN  IF FrameRefused(data, headers) THEN Raises("ValueError")
             ELSE IF ColumnsError(data, Len(headers), 1) # ""
                  THEN Raises(ColumnsError(data, Len(headers), 1))
                  ELSE Returned("frame", EmptyDict, SectorFrame(data, headers))

----------------------------------------------------------------------------
(* _make_request (src/web_scapper.py:46-80) *)

\* what requests.get does: it raises (timeout, DNS, connection refused), or
\* returns a response with a status
GetRaises == [raised |-> TRUE, status |-> 0]

Response(status) == [raised |-> FALSE, status |-> status]

Responses == {GetRaises, Response(200), Response(404), Response(503)}

NoResponse == [raised |-> FALSE, status |-> 0]

\* lines 57-60: the sleep that keeps min_request_interval after last_request_time
SleepTime(t, last) ==
    LET time_since_last_request == t - last IN
    IF time_since_last_request < HalfSeconds(min_request_interval)
    THEN HalfSeconds(min_request_interval) - time_since_last_request
    ELSE 0

\* lines 66-72: the proxies argument of requests.get
NoProxies == [set |-> FALSE, http |-> "", https |-> ""]

RequestProxies(c) ==
    IF c.set THEN [set |-> TRUE, http |-> CycleItem(c), https |-> CycleItem(c)]
    ELSE NoProxies

\* a time of the old clock on the clock that starts at `ended`
Rebase(t, ended) == Max2(t - ended, 0 - HalfSeconds(min_request_interval))

\* line 78, self.last_request_time = time.time(), runs when requests.get
\* returned; when it raised, last_request_time is left as it was
LastRequestTime(last, resp, ended) ==
    IF resp.raised THEN Rebase(last, ended) ELSE Rebase(ended, ended)

\* one call of _make_request: the rate-limit sleep, the rotation, the jitter
\* sleep (jit half seconds), the GET (dur half seconds, ending as resp)
_make_request(jit, dur, resp) ==
    LET started == now + SleepTime(now, last_request_time) + jit
        ended == started + dur
    IN  /\ user_agent_cycle' = CycleAdvance(user_agent_cycle)
        /\ proxies' = IF proxies.set THEN CycleAdvance(proxies) ELSE proxies
        /\ sent' = [ua |-> CycleItem(user_agent_cycle), proxies |-> RequestProxies(proxies)]
        /\ now' = Rebase(ended, ended)
        /\ last_request_time' = LastRequestTime(last_request_time, resp, ended)
        /\ n_requests' = n_requests + 1
        /\ n_gets' = n_gets + 1
        /\ gap' = IF n_requests = 0 THEN 0 - 1 ELSE started
        /\ jitter' = jit
        /\ outcome' = resp
        /\ UNCHANGED proxy_arg

\* (only a 5xx status raising)
raise_for_status_5xx(status) == status >= 500 /\ status < 600

\* response.raise_for_status() raises HTTPError on a 4xx or 5xx status
raise_for_status(status) == status >= 400 /\ status < 600

----------------------------------------------------------------------------
(* The public calls *)

\* get_company_data (lines 93-120): any exception is logged and raised again
CompanyResult(resp, page) ==
    IF resp.raised THEN Raises("RequestException")
    ELSE IF raise_for_status(resp.status) THEN Raises("HTTPError")
    ELSE Returned("data", ParseCompanyPage(page), NoFrame)

\* get_sector_data (lines 129-171): any exception is logged and raised again
SectorResult(resp, page) ==
    IF resp.raised THEN Raises("RequestException")
    ELSE IF raise_for_status(resp.status) THEN Raises("HTTPError")
    ELSE ParseSectorPage(page)

\* The inputs a specification draws: Spec every timing and every proxies
\* argument on one page that parses, SpecFetch every page
MaxCalls == IF mode = "scraper" THEN MaxRequests ELSE MaxFetches

PageChoices(pages) == IF mode = "scraper" THEN {2} ELSE 1..Len(pages)

JitterChoices == IF mode = "scraper" THEN JitterLo..JitterHi ELSE {JitterLo, JitterHi}

\* how a GET is answered: it raises, or returns an error status (page 0: no
\* page is read), or returns page p of the pages with status 200
Answer(resp, p) == [resp |-> resp, page |-> p]

Answers(pages) ==
    {Answer(resp, 0) : resp \in Responses \ {Response(200)}}
        \cup {Answer(Response(200), p) : p \in PageChoices(pages)}

NoPage == <<>>

PageOf(pages, p) == IF p = 0 THEN NoPage ELSE pages[p]

GetCompanyData ==
    /\ mode \in {"scraper", "fetch"}
    /\ n_calls < MaxCalls
    /\ \E jit \in JitterChoices, dur \in 0..MaxGetTime, a \in Answers(CompanyPages) :
          /\ _make_request(jit, dur, a.resp)
          /\ fetched' = [kind |-> "company", index |-> a.page]
          /\ result' = CompanyResult(a.resp, PageOf(CompanyPages, a.page))
    /\ n_calls' = n_calls + 1
    /\ UNCHANGED <<mode, convert_vars, rating_vars>>

GetSectorData ==
    /\ mode \in {"scraper", "fetch"}
    /\ n_calls < MaxCalls
    /\ \E jit \in JitterChoices, dur \in 0..MaxGetTime, a \in Answers(SectorPages) :
          /\ _make_request(jit, dur, a.resp)
          /\ fetched' = [kind |-> "sector", index |-> a.page]
          /\ result' = SectorResult(a.resp, PageOf(SectorPages, a.page))
    /\ n_calls' = n_calls + 1
    /\ UNCHANGED <<mode, convert_vars, rating_vars>>

\* the caller does something else for half a second
Idle ==
    /\ mode \in {"scraper", "fetch"}
    /\ n_calls < MaxCalls
    /\ now < MaxIdle
    /\ now' = now + 1
    /\ UNCHANGED <<mode, user_agent_cycle, proxies, last_request_time, proxy_arg,
                   n_requests, n_calls, n_gets, sent, gap, jitter, outcome, fetched,
                   result,
                   convert_vars, rating_vars>>

NoValue == [tag |-> "none", num |-> 0, text |-> <<>>]

PureIdle ==
    /\ conv_in = <<>>
    /\ conv_out = NoValue
    /\ company_data = EmptyDict
    /\ scores = NoScores
    /\ ratings = NoRatings

\* FinvizScraper(arg) (lines 13-31); last_request_time = 0 is the epoch, far
\* more than min_request_interval before the construction
Constructed(arg) ==
    /\ proxy_arg = arg
    /\ proxies = InitProxies(arg)
    /\ user_agent_cycle = cycle(user_agents)
    /\ last_request_time = 0 - HalfSeconds(min_request_interval)
    /\ now = 0
    /\ n_requests = 0
    /\ n_calls = 0
    /\ n_gets = 0
    /\ sent = [ua |-> "", proxies |-> NoProxies]
    /\ gap = 0 - 1
    /\ jitter = 0
    /\ outcome = NoResponse
    /\ fetched = [kind |-> "", index |-> 0]
    /\ result = NoResult

Init ==
    /\ mode = "scraper"
    /\ \E arg \in ProxyArgs : Constructed(arg)
    /\ PureIdle

Next == GetCompanyData \/ GetSectorData \/ Idle

Spec == Init /\ [][Next]_vars

InitFetch ==
    /\ mode = "fetch"
    /\ \E arg \in {None, cycle(<<"px1", "px2">>)} : Constructed(arg)
    /\ PureIdle

SpecFetch == InitFetch /\ [][Next]_vars

----------------------------------------------------------------------------
(* SpecConvert: _convert_value on every string of at most MaxLen characters *)
(* of ConvChars, and on the two strings the specification names            *)

ConvChars == {"1", "5", ",", "%", ".", "-", "N"}

Strings(n) == UNION {[1..k -> ConvChars] : k \in 0..n}

\* the model's floats keep FracDigits decimal digits
Representable(cs) ==
    LET stripped == StripSeparators(cs) IN
    IsFloat(stripped) => FracLen(Unsigned(stripped)) <= FracDigits

ConvInputs == {cs \in Strings(MaxLen) : Representable(cs)}
                  \cup {c_big.chars, <<"N", "/", "A">>}

NoScraper == Constructed(None)

InitConvert ==
    /\ mode = "convert"
    /\ NoScraper
    /\ conv_in \in ConvInputs
    /\ conv_out = NoValue
    /\ company_data = EmptyDict
    /\ scores = NoScores
    /\ ratings = NoRatings

ConvertValue ==
    /\ mode = "convert"
    /\ conv_out = NoValue
    /\ conv_out' = _convert_value(conv_in)
    /\ UNCHANGED <<mode, scraper_vars, conv_in, rating_vars>>

NextConvert == ConvertValue

SpecConvert == InitConvert /\ [][NextConvert]_vars

----------------------------------------------------------------------------
(* SpecRating: get_stock_rating_data on snapshots whose scored fields are  *)
(* absent, a str, or a float of the field's list                           *)

Dash == Text(<<"-">>)

Absent == [tag |-> "absent", num |-> 0, text |-> <<>>]

\* floats given in halves: 3 is 1.5
Halves(ks) == {Number((k * NumScale) \div 2) : k \in ks}

PeValues == {Absent, Dash} \cup Halves({0 - 2, 0, 30, 60, 90})
PegValues == {Absent, Dash} \cup Halves({0 - 2, 0, 2, 3, 8})
PbValues == {Absent, Dash} \cup Halves({0 - 2, 0, 4, 10, 12})
GrowthValues == {Absent, Dash} \cup Halves({0 - 10, 5, 60})
CurrentRatioValues == {Absent, Dash} \cup Halves({0 - 2, 3, 6})
DebtEquityValues == {Absent, Dash} \cup Halves({0 - 2, 1, 6})

\* the dict that holds the fields that are not Absent
Snapshot(fields) == [k \in {f \in DOMAIN fields : fields[f] # Absent} |-> fields[k]]

InitRating ==
    /\ mode = "rating"
    /\ NoScraper
    /\ conv_in = <<>>
    /\ conv_out = NoValue
    /\ \E pe \in PeValues, peg \in PegValues, pb \in PbValues,
          eg \in GrowthValues, sg \in GrowthValues,
          cr \in CurrentRatioValues, de \in DebtEquityValues :
          company_data = Snapshot([k \in ScoredFields |->
              CASE k = "P/E" -> pe
                [] k = "PEG" -> peg
                [] k = "P/B" -> pb
                [] k = "EPS growth next 5 years" -> eg
                [] k = "Sales growth past 5 years" -> sg
                [] k = "Current Ratio" -> cr
                [] k = "Debt/Equity" -> de])
    /\ scores = NoScores
    /\ ratings = NoRatings

GetStockRatingData ==
    /\ mode = "rating"
    /\ ratings.state = "none"
    /\ LET r == get_stock_rating_data(company_data) IN
          /\ ratings' = r.ratings
          /\ scores' = r.scores
    /\ UNCHANGED <<mode, scraper_vars, convert_vars, company_data>>

NextRating == GetStockRatingData

SpecRating == InitRating /\ [][NextRating]_vars

----------------------------------------------------------------------------
(* Properties *)

\* the i-th item (i from 0) of a pool that is cycled through
Cycled(pool, i) == pool[(i % Len(pool)) + 1]

\* C1: on the i-th call of _make_request (from 0, whatever the outcome of the
\* calls) the User-Agent sent is user_agents[i mod 5]; with a non-empty
\* proxies list of size P given at construction the call uses proxies[i mod P]
\* for both http and https, and with none given it uses no proxy.
C1_RotationCycles ==
    n_requests >= 1 =>
        /\ Len(user_agents) = 5
        /\ sent.ua = Cycled(user_agents, n_requests - 1)
        /\ IF proxy_arg.set /\ proxy_arg.pool # <<>>
           THEN /\ sent.proxies.set
                /\ sent.proxies.http = Cycled(proxy_arg.pool, n_requests - 1)
                /\ sent.proxies.https = Cycled(proxy_arg.pool, n_requests - 1)
           ELSE sent.proxies = NoProxies

\* both pools have wrapped, and a GET before has raised
C1_Witness ==
    /\ n_requests = 6
    /\ sent.ua = user_agents[1]
    /\ Len(proxy_arg.pool) = 3
    /\ sent.proxies.http = "px3"
    /\ last_request_time < 0

\* C2: from the end of one fetch, whatever its outcome, to the start of the
\* next fetch's GET there are at least min_request_interval (2 s) plus the
\* jitter, and the jitter is between 0.5 s and 1.5 s.
C2_MinIntervalAfterEveryFetch ==
    n_requests >= 2 =>
        /\ jitter \in JitterLo..JitterHi
        /\ gap >= HalfSeconds(min_request_interval) + jitter

\* C3: every get_company_data or get_sector_data call issues exactly one GET;
\* when the GET raises, or the status is 4xx or 5xx, the call raises that
\* error and returns no data.
C3_OneGetNoRetry ==
    /\ n_gets = n_calls
    /\ n_calls >= 1 =>
        /\ outcome.raised => result = Raises("RequestException")
        /\ (~outcome.raised /\ outcome.status \in 400..599) => result = Raises("HTTPError")
        /\ result.state = "raised" => (result.data = EmptyDict /\ result.frame = NoFrame)

\* a second call, whose GET got a 404
C3_Witness ==
    /\ n_calls = 2
    /\ n_gets = 2
    /\ outcome = Response(404)
    /\ result = Raises("HTTPError")
    /\ last_request_time = 0

\* C4: every call of _make_request, successful or failed, advances the
\* user-agent cursor by one (and the proxy cursor, when there is a pool) and
\* sets last_request_time to the time its GET ended.
C4_EveryFetchUpdatesContext ==
    [][n_requests' = n_requests + 1 =>
          /\ user_agent_cycle'.pos = (user_agent_cycle.pos % Len(user_agents)) + 1
          /\ proxies.set => proxies'.pos = (proxies.pos % Len(proxies.pool)) + 1
          /\ last_request_time' = now']_vars

Rated == ratings.state # "none"

\* C5, as stated: the empty snapshot gets the three scores 0 and the overall
\* score 0.
C5_EmptySnapshotAllZero ==
    (Rated /\ company_data = EmptyDict) =>
        /\ ratings.state = "returned"
        /\ ratings.valuation_score = 0
        /\ ratings.growth_score = 0
        /\ ratings.financial_health_score = 0
        /\ ratings.overall_score = 0

\* C5, amended: the empty snapshot gets valuation_score 0, growth_score 0 and
\* financial_health_score 100 (the absent Debt/Equity counts as 0, which is
\* included and scores 100), so overall_score is 100/3.
C5_EmptySnapshotScores ==
    (Rated /\ company_data = EmptyDict) =>
        /\ ratings.state = "returned"
        /\ ratings.valuation_score = 0
        /\ ratings.growth_score = 0
        /\ ratings.financial_health_score = Pts(100)
        /\ 3 * ratings.overall_score = Pts(100)

C5_Witness == company_data = EmptyDict /\ ratings.state = "returned"

InRange(score) == 0 <= score /\ score <= Pts(100)

\* C6: whatever the numeric fields (positive, zero, negative or absent), each
\* of the three scores lies in [0, 100], and overall_score is their mean and
\* lies in [0, 100].
C6_ScoresInRange ==
    ratings.state = "returned" =>
        /\ InRange(ratings.valuation_score)
        /\ InRange(ratings.growth_score)
        /\ InRange(ratings.financial_health_score)
        /\ 3 * ratings.overall_score = ratings.valuation_score + ratings.growth_score
                                           + ratings.financial_health_score
        /\ InRange(ratings.overall_score)

Field(k) == DictGet(company_data, k, Number(0))

\* a negative input, and a component held at the ceiling and one at the floor
C6_Witness ==
    /\ ratings.state = "returned"
    /\ Field("P/E").num < 0
    /\ Field("EPS growth next 5 years").num * 5 > 100 * NumScale
    /\ Field("Sales growth past 5 years").num < 0
    /\ scores.growth = <<Pts(100), 0>>

\* n hundredths of a point
Hundredths(n) == n * NumScale * 18

\* clamp(x, 0, 100)
ClampTo100(x) == IF x < 0 THEN 0 ELSE IF x > Pts(100) THEN Pts(100) ELSE x

\* the components of the valuation score, as the specification gives them
ValuationComponents(pe, peg, pb) ==
    (IF pe > 0 THEN <<ClampTo100((30 * NumScale - pe) * 333 * 18)>> ELSE <<>>)
    \o (IF peg > 0
        THEN <<ClampTo100((2 * NumScale - (IF peg > NumScale THEN peg - NumScale
                                           ELSE NumScale - peg)) * 50 * 100 * 18)>>
        ELSE <<>>)
    \o (IF pb > 0 THEN <<ClampTo100((5 * NumScale - pb) * 20 * 100 * 18)>> ELSE <<>>)

Scenario(pe, peg, pb) ==
    /\ ratings.state = "returned"
    /\ Field("P/E") = Number(pe * NumScale)
    /\ Field("PEG") = Number(peg * NumScale)
    /\ Field("P/B") = Number(pb * NumScale)

\* the score, rounded to hundredths of a point, is n hundredths
RoundsTo(score, n) == 2 * Hundredths(n) - Hundredths(1) <= 2 * score
                          /\ 2 * score < 2 * Hundredths(n) + Hundredths(1)

\* C7, the scenario as stated: {P/E: 15, PEG: 1, P/B: 2} has the components
\* [50.05, 100, 60] and the valuation score 70.02.
C7_ScenarioAsStated ==
    Scenario(15, 1, 2) =>
        /\ scores.valuation = <<Hundredths(5005), Pts(100), Pts(60)>>
        /\ RoundsTo(ratings.valuation_score, 7002)

\* C7, amended: the valuation score is the mean of clamp((30 - PE) * 3.33, 0,
\* 100), clamp((2 - |1 - PEG|) * 50, 0, 100) and clamp((5 - PB) * 20, 0, 100),
\* each included only when its input is strictly positive, and 0 when none
\* is; PE = 30 gives a P/E component of 0, PE = 0 is left out, and {P/E: 15,
\* PEG: 1, P/B: 2} has the components [49.95, 100, 60] and the score 69.98.
C7_ValuationScore ==
    ratings.state = "returned" =>
        LET cs == ValuationComponents(Field("P/E").num, Field("PEG").num, Field("P/B").num) IN
        /\ scores.valuation = cs
        /\ ratings.valuation_score = IF cs = <<>> THEN 0 ELSE Sum(cs) \div Len(cs)
        /\ Field("P/E") = Number(30 * NumScale) => scores.valuation[1] = 0
        /\ Field("P/E") = Number(0) =>
               Len(scores.valuation) = Cardinality({k \in {"PEG", "P/B"} : Field(k).num > 0})
        /\ Scenario(15, 1, 2) =>
               /\ scores.valuation = <<Hundredths(4995), Pts(100), Pts(60)>>
               /\ RoundsTo(ratings.valuation_score, 6998)

C7_Witness == Scenario(15, 1, 2) /\ Len(scores.valuation) = 3

\* C8: _convert_value strips commas and percent signs and returns the parsed
\* number when the rest parses ("1,234.5%" gives 1234.5); when it does not,
\* it returns the original string unchanged ("N/A" gives "N/A").
C8_FallbackIsTheOriginal ==
    conv_out # NoValue =>
        /\ IF IsFloat(StripSeparators(conv_in))
           THEN conv_out = Number(ParseFloat(StripSeparators(conv_in)))
           ELSE conv_out = Text(conv_in)
        /\ conv_in = c_big.chars => conv_out = Number(1234 * NumScale + NumScale \div 2)
        /\ conv_in = <<"N", "/", "A">> => conv_out = Text(<<"N", "/", "A">>)

\* no table of the page matches one of the three selectors
NoSelectorMatches(page) ==
    \A i \in 1..Len(page) :
        /\ "table-light" \notin page[i].classes
        /\ "groups-table-overview" \notin page[i].classes
        /\ page[i].id # "groups-table-overview"

SectorFetched == fetched.kind = "sector" /\ fetched.index > 0

\* C9: when the fetched sector page has no table matching one of the three
\* selectors, get_sector_data raises the table-not-found error and returns
\* no table; it raises that error on no other page; and where the three
\* selectors match three different tables, the table-light one is taken.
C9_TableNotFound ==
    SectorFetched =>
        /\ NoSelectorMatches(SectorPages[fetched.index])
               <=> result = Raises("ValueError: Sector table not found")
        /\ fetched.index = 6 =>
               /\ result.state = "returned"
               /\ Len(result.frame.rows) = Len(SectorPages[6][3].rows) - 1

\* a page with a table, which no selector matches
C9_Witness ==
    /\ SectorFetched
    /\ SectorPages[fetched.index] # <<>>
    /\ result.error = "ValueError: Sector table not found"

HasText == \E k \in ScoredFields \cap DOMAIN company_data : company_data[k].tag = "Text"

\* C10: get_stock_rating_data raises when one of the seven scored fields
\* holds a str, and returns a RatingSet only when every scored field is absent
\* or a number.
C10_TextNeverScored ==
    Rated => (IF HasText THEN ratings.state = "raised" ELSE ratings.state = "returned")

\* the only str is the last field read
C10_Witness ==
    /\ ratings.state = "raised"
    /\ Field("Debt/Equity") = Dash
    /\ \A k \in ScoredFields \ {"Debt/Equity"} : Field(k).tag = "Number"
    /\ Len(scores.health) = 1

====
